---- MODULE Spec2Model ----
(***************************************************************************)
(* go-fuzz-runner: the corpus manager (internal/corpus/manager.go) and the *)
(* fuzz engine (internal/runner/engine.go) as a state machine over a small *)
(* file system.                                                            *)
(*                                                                         *)
(* A directory is a record [exists, entries]; entries maps every name of   *)
(* Names to Absent, SubDir, or a file <<"file", bytes>>.  Strings that the *)
(* code takes apart (package paths, target keys, directory paths) are      *)
(* sequences of tokens, so that the conversions the code applies to them   *)
(* (ReplaceAll, Sprintf, Join) are computed and can fail to be injective.  *)
(* External processes (the fuzz harness, the minimizer) and failing OS     *)
(* calls are inputs of the actions, drawn with \E.                         *)
(***************************************************************************)
EXTENDS Integers, Sequences, FiniteSets, TLC

VARIABLES
    persist,        \* the corpus tree on disk: path -> directory
    TargetDirs,     \* CorpusManager.TargetDirs: target key -> cached path
    Minimization,   \* CorpusManager.Minimization
    Config,         \* FuzzEngine.Config
    Targets,        \* FuzzEngine.Targets
    Results,        \* FuzzEngine.Results
    idx,            \* position of RunAll's range loop (1-based)
    pc,             \* where the program is
    workspaces,     \* temp directories that exist on disk
    tempDir,        \* RunTarget's tempDir while a target is running, else 0
    wsCorpus,       \* <tempDir>/corpus
    wsCrashers,     \* <tempDir>/crashers
    exitCode,       \* exit status of the harness process that ended
    calls,          \* number of manager calls made (manager sessions)
    project,        \* the source tree, as go list, the parser and git see it
    instances,      \* manager instances that run side by side on one disk
    last            \* the most recent call: its arguments and what it returned

vars == <<persist, TargetDirs, Minimization, Config, Targets, Results, idx, pc,
          workspaces, tempDir, wsCorpus, wsCrashers, exitCode,
          calls, project, instances, last>>

----------------------------------------------------------------------------
(* Bounds *)

MaxContent == 2
MaxTargets == 2
MaxCalls == 2

----------------------------------------------------------------------------
(* Data *)

NoMinimization == "none"

CoverageMinimization == "coverage"

Strategies == {NoMinimization, CoverageMinimization}

\* File names, in the order os.ReadDir lists them (sorted by name).
Names == <<"n1", "n2">>

NameSet == {Names[i] : i \in DOMAIN Names}

Contents == 1..MaxContent

\* Bytes of a file whose io.Copy stopped early: a proper prefix of the source.
PartialData == 0

Absent == <<"absent">>

SubDir == <<"dir">>

File(c) == <<"file", c>>

IsFile(e) == e[1] = "file"

NoDir == [exists |-> FALSE, entries |-> [n \in NameSet |-> Absent]]

EmptyDir == [exists |-> TRUE, entries |-> [n \in NameSet |-> Absent]]

\* Names of the regular files of a directory.
Files(d) == {n \in NameSet : d.exists /\ IsFile(d.entries[n])}

\* Names of all entries of a directory, as os.ReadDir lists them.
Entries(d) == {n \in NameSet : d.exists /\ d.entries[n] # Absent}

\* target.Target: only Package and Name reach the corpus manager and engine.
PkgCodec == <<"pkg", "/", "codec">>

PkgCodecFlat == <<"pkg", "_", "codec">>

PkgB == <<"pkgB">>

Packages == {PkgCodec, PkgCodecFlat, PkgB}

Target(p, n) == [Package |-> p, Name |-> n]

TargetUniverse == {Target(p, "FuzzDecode") : p \in Packages}

\* The element of a set of one.  {F(x) : x \in {e}} holds F of e, with e
\* computed once: a local of the code, assigned once and read many times.
Only(S) == CHOOSE y \in S : TRUE

\* The engine and the manager never read the source tree.
NoProject == [tree |-> "unread"]

\* One manager instance at a time: nothing runs side by side.
NoInstances == <<>>

----------------------------------------------------------------------------
(* internal/corpus/manager.go *)

BaseDir == "fuzz-corpus"

\* strings.ReplaceAll(s, old, new) for a one-token pattern.
ReplaceAll(s, old, new) == [i \in DOMAIN s |-> IF s[i] = old THEN new ELSE s[i]]

\* fmt.Sprintf("%s.%s", target.Package, target.Name)
targetKey(t) == t.Package \o <<".", t.Name>>

\* filepath.Join(m.BaseDir, strings.ReplaceAll(target.Package, "/", "_"), target.Name)
targetPath(t) == <<BaseDir>> \o ReplaceAll(t.Package, "/", "_") \o <<"/", t.Name>>

Keys == {targetKey(t) : t \in TargetUniverse}

Paths == {targetPath(t) : t \in TargetUniverse}

NoPath == <<>>

\* The state a CorpusManager method works on.
Mgr(p, td, mz) == [persist |-> p, TargetDirs |-> td, Minimization |-> mz]

\* os.MkdirAll(dir): creates the directory unless it exists; ok = FALSE is a
\* failing call, which leaves the disk as it was.
MkdirAll(d, ok) == IF d.exists \/ ~ok THEN d ELSE EmptyDir

\* Mutant of GetTargetDir: the cache is not read, every call resolves anew.
GetTargetDirUncached(m, t, mkdirOk) ==
    LET key == targetKey(t)
        dir == targetPath(t)
    IN [dir |-> dir,
        persist |-> [m.persist EXCEPT ![dir] = MkdirAll(@, mkdirOk)],
        TargetDirs |-> [m.TargetDirs EXCEPT ![key] = dir],
        mkdirs |-> 1]

\* CorpusManager.GetTargetDir.  The result of os.MkdirAll is dropped.
GetTargetDir(m, t, mkdirOk) ==
    LET key == targetKey(t) IN
    IF m.TargetDirs[key] # NoPath
    THEN [dir |-> m.TargetDirs[key], persist |-> m.persist,
          TargetDirs |-> m.TargetDirs, mkdirs |-> 0]
    ELSE LET dir == targetPath(t) IN
         [dir |-> dir,
          persist |-> [m.persist EXCEPT ![dir] = MkdirAll(@, mkdirOk)],
          TargetDirs |-> [m.TargetDirs EXCEPT ![key] = dir],
          mkdirs |-> 1]

CopyKinds == {"create", "copy"}

NoFault == [name |-> "", kind |-> "none"]

\* Which copyFile call of a loop fails, and at which of its calls: os.Create
\* (a failing os.Open leaves the same state) or io.Copy.
CopyFaults == {NoFault} \cup [name : NameSet, kind : CopyKinds]

\* The faults that can strike while the files named in ns are copied.
FaultsOn(ns) == {f \in CopyFaults : f = NoFault \/ f.name \in ns}

\* Mutant of copyFile: the error of io.Copy is dropped.
copyFileUnchecked(srcEntry, dst, n, kind) ==
    IF srcEntry = Absent \/ kind = "open" THEN [dir |-> dst, err |-> TRUE]
    ELSE IF ~dst.exists \/ dst.entries[n] = SubDir \/ kind = "create"
    THEN [dir |-> dst, err |-> TRUE]
    ELSE IF srcEntry = SubDir \/ kind = "copy"
    THEN [dir |-> [dst EXCEPT !.entries[n] = File(PartialData)], err |-> FALSE]
    ELSE [dir |-> [dst EXCEPT !.entries[n] = srcEntry], err |-> FALSE]

\* copyFile(src, dst): the destination directory after the call, and whether
\* the call returned an error.  os.Open fails on a missing source, os.Create
\* on a missing directory or on a directory of that name; a failing io.Copy
\* leaves the created file with a prefix of the bytes.
copyFile(srcEntry, dst, n, kind) ==
    IF srcEntry = Absent \/ kind = "open" THEN [dir |-> dst, err |-> TRUE]
    ELSE IF ~dst.exists \/ dst.entries[n] = SubDir \/ kind = "create"
    THEN [dir |-> dst, err |-> TRUE]
    ELSE IF srcEntry = SubDir \/ kind = "copy"
    THEN [dir |-> [dst EXCEPT !.entries[n] = File(PartialData)], err |-> TRUE]
    ELSE [dir |-> [dst EXCEPT !.entries[n] = srcEntry], err |-> FALSE]

\* Mutant of Stat: the existence check never finds the entry.
StatNever(d, n) == FALSE

\* os.Stat(dstPath) returns a nil error.
Stat(d, n) == d.exists /\ d.entries[n] # Absent

\* Mutant of ImportLoop: an entry that already exists is an error instead of
\* being passed over.
RECURSIVE ImportLoopStrict(_, _, _, _, _)
ImportLoopStrict(i, dst, src, fault, copied) ==
    IF i > Len(Names)
    THEN [dir |-> dst, err |-> FALSE, copied |-> copied, bad |-> ""]
    ELSE LET n == Names[i] IN
         IF src.entries[n] = Absent \/ src.entries[n] = SubDir
         THEN ImportLoopStrict(i + 1, dst, src, fault, copied)
         ELSE IF Stat(dst, n)
         THEN [dir |-> dst, err |-> TRUE, copied |-> copied, bad |-> n]
         ELSE LET r == copyFile(src.entries[n], dst, n,
                                IF fault.name = n THEN fault.kind ELSE "none")
              IN IF r.err
                 THEN [dir |-> r.dir, err |-> TRUE, copied |-> copied, bad |-> n]
                 ELSE ImportLoopStrict(i + 1, r.dir, src, fault, copied \cup {n})

\* The range loop of ImportNewCorpusEntries from entry i on: the directory,
\* whether a copy failed and for which entry, and the names written by
\* copies that succeeded.
RECURSIVE ImportLoop(_, _, _, _, _)
ImportLoop(i, dst, src, fault, copied) ==
    IF i > Len(Names)
    THEN [dir |-> dst, err |-> FALSE, copied |-> copied, bad |-> ""]
    ELSE LET n == Names[i] IN
         IF src.entries[n] = Absent \/ src.entries[n] = SubDir
         THEN ImportLoop(i + 1, dst, src, fault, copied)
         ELSE IF Stat(dst, n)
         THEN ImportLoop(i + 1, dst, src, fault, copied)
         ELSE LET r == copyFile(src.entries[n], dst, n,
                                IF fault.name = n THEN fault.kind ELSE "none")
              IN IF r.err
                 THEN [dir |-> r.dir, err |-> TRUE, copied |-> copied, bad |-> n]
                 ELSE ImportLoop(i + 1, r.dir, src, fault, copied \cup {n})

\* What a run of the external minimizer can do on a directory holding the
\* files named in ns: its exit status and the files it keeps.
MinOutcomes(ns) == [exit : {0, 1}, keep : SUBSET ns]

\* The runs of the minimizer a call with strategy mz can meet: none starts
\* no process, so there is nothing to choose.
OutcomesFor(mz, ns) ==
    IF mz = NoMinimization THEN {[exit |-> 0, keep |-> ns]} ELSE MinOutcomes(ns)

\* The files of src the import loop copies into dst: those os.Stat does not
\* find there.  A fault can strike these copies only.
Copyable(dst, src) == {n \in Files(src) : ~Stat(dst, n)}

\* The runs of the minimizer an import can meet: it is reached only when no
\* copy failed.
ImportOutcomes(mz, fault, ns) ==
    IF fault # NoFault THEN {[exit |-> 0, keep |-> ns]} ELSE OutcomesFor(mz, ns)

\* The outcomes of os.MkdirAll in GetTargetDir: it is called only for a
\* target that is not cached.
MkdirOutcomes(td, t) == IF td[targetKey(t)] # NoPath THEN {TRUE} ELSE BOOLEAN

\* The minimizer process on a directory: it deletes the files it does not
\* keep; entries that are not regular files stay.
RunMinimizer(d, outcome) ==
    [d EXCEPT !.entries = [n \in NameSet |->
        IF IsFile(@[n]) /\ n \notin outcome.keep THEN Absent ELSE @[n]]]

\* Mutant of Minimize: the early return for strategy none is missing.
MinimizeAlways(m, t, mkdirOk, outcome) ==
    LET g == GetTargetDir(m, t, mkdirOk) IN
    [persist |-> [g.persist EXCEPT ![g.dir] = RunMinimizer(@, outcome)],
     TargetDirs |-> g.TargetDirs,
     err |-> outcome.exit # 0,
     procs |-> 1]

\* CorpusManager.Minimize: the manager state after the call, whether it
\* returned an error, and the number of external processes it started.
Minimize(m, t, mkdirOk, outcome) ==
    IF m.Minimization = NoMinimization
    THEN [persist |-> m.persist, TargetDirs |-> m.TargetDirs,
          err |-> FALSE, procs |-> 0]
    ELSE LET g == GetTargetDir(m, t, mkdirOk) IN
         [persist |-> [g.persist EXCEPT ![g.dir] = RunMinimizer(@, outcome)],
          TargetDirs |-> g.TargetDirs,
          err |-> outcome.exit # 0,
          procs |-> 1]

\* Mutant of ImportNewCorpusEntries: when the minimizer fails, the files
\* the call copied are removed again.
ImportNewCorpusEntriesRollback(m, t, src, mkdirOk, fault, outcome) ==
    LET g == GetTargetDir(m, t, mkdirOk) IN
    IF ~src.exists
    THEN [persist |-> g.persist, TargetDirs |-> g.TargetDirs, err |-> TRUE,
          stage |-> "readdir", copied |-> {}, bad |-> "", procs |-> 0]
    ELSE LET l == ImportLoop(1, g.persist[g.dir], src, fault, {})
             p == [g.persist EXCEPT ![g.dir] = l.dir]
         IN IF l.err
            THEN [persist |-> p, TargetDirs |-> g.TargetDirs, err |-> TRUE,
                  stage |-> "copy", copied |-> l.copied, bad |-> l.bad,
                  procs |-> 0]
            ELSE IF m.Minimization = CoverageMinimization
            THEN LET z == Minimize(Mgr(p, g.TargetDirs, m.Minimization),
                                   t, mkdirOk, outcome)
                 IN [persist |-> IF z.err
                                 THEN [z.persist EXCEPT ![g.dir].entries =
                                         [n \in NameSet |->
                                            IF n \in l.copied THEN Absent ELSE @[n]]]
                                 ELSE z.persist,
                     TargetDirs |-> z.TargetDirs,
                     err |-> z.err,
                     stage |-> IF z.err THEN "minimize" ELSE "none",
                     copied |-> l.copied, bad |-> "", procs |-> z.procs]
            ELSE [persist |-> p, TargetDirs |-> g.TargetDirs, err |-> FALSE,
                  stage |-> "none", copied |-> l.copied, bad |-> "",
                  procs |-> 0]

\* CorpusManager.ImportNewCorpusEntries.  stage names the step that failed.
ImportNewCorpusEntries(m, t, src, mkdirOk, fault, outcome) ==
    LET minimized(l, z) ==
            [persist |-> z.persist, TargetDirs |-> z.TargetDirs,
             err |-> z.err,
             stage |-> IF z.err THEN "minimize" ELSE "none",
             copied |-> l.copied, bad |-> "", procs |-> z.procs]
        copiedAll(g, l) ==
            LET p == [g.persist EXCEPT ![g.dir] = l.dir] IN
            IF l.err
            THEN [persist |-> p, TargetDirs |-> g.TargetDirs, err |-> TRUE,
                  stage |-> "copy", copied |-> l.copied, bad |-> l.bad,
                  procs |-> 0]
            ELSE IF m.Minimization = CoverageMinimization
            THEN Only({minimized(l, z) :
                         z \in {Minimize(Mgr(p, g.TargetDirs, m.Minimization),
                                         t, mkdirOk, outcome)}})
            ELSE [persist |-> p, TargetDirs |-> g.TargetDirs, err |-> FALSE,
                  stage |-> "none", copied |-> l.copied, bad |-> "",
                  procs |-> 0]
        resolved(g) ==
            IF ~src.exists
            THEN [persist |-> g.persist, TargetDirs |-> g.TargetDirs, err |-> TRUE,
                  stage |-> "readdir", copied |-> {}, bad |-> "", procs |-> 0]
            ELSE Only({copiedAll(g, l) :
                         l \in {ImportLoop(1, g.persist[g.dir], src, fault, {})}})
    IN Only({resolved(g) : g \in {GetTargetDir(m, t, mkdirOk)}})

----------------------------------------------------------------------------
(* internal/target/discovery.go *)

\* strings.HasPrefix(s, prefix) for a one-token prefix.
HasPrefix(s, prefix) == Len(s) > 0 /\ s[1] = prefix

\* strings.HasSuffix(s, suffix) for a one-token suffix.
HasSuffix(s, suffix) == Len(s) > 0 /\ s[Len(s)] = suffix

\* go/ast nodes, with the fields discovery reads.
Ident(name) == [node |-> "Ident", Name |-> name]

SelectorExpr(x, sel) == [node |-> "SelectorExpr", X |-> x, Sel |-> sel]

StarExpr(x) == [node |-> "StarExpr", X |-> x]

\* One entry of a parameter list: the names declared with one type.
Field(names, type) == [Names |-> names, Type |-> type]

\* A function or method declaration; Recv says whether it has a receiver,
\* Doc is its comment group, a sequence of lines (none: no doc comment).
FuncDecl(recv, name, params, doc) ==
    [node |-> "FuncDecl", Recv |-> recv, Name |-> name, Params |-> params,
     Doc |-> doc]

\* Any other top-level declaration (import, const, type, var).
GenDecl == [node |-> "GenDecl"]

NoDoc == <<>>

\* A line of a comment group: the marker, a blank, the text.
CommentLine(text) == <<"//", " ", text>>

\* CommentGroup.Text from line i on: the markers and the blank after them
\* are dropped, every line ends with a newline.
RECURSIVE DocText(_, _)
DocText(doc, i) ==
    IF i > Len(doc) THEN <<>>
    ELSE <<doc[i][3], "\n">> \o DocText(doc, i + 1)

\* hasFuzzParameter: one entry in the parameter list, whose type is written
\* *testing.F.
hasFuzzParameter(funcDecl) ==
    IF Len(funcDecl.Params) # 1 THEN FALSE
    ELSE LET param == funcDecl.Params[1] IN
         IF param.Type.node # "StarExpr" THEN FALSE
         ELSE IF param.Type.X.node # "SelectorExpr" THEN FALSE
         ELSE IF param.Type.X.X.node # "Ident" THEN FALSE
         ELSE param.Type.X.X.Name = "testing" /\ param.Type.X.Sel = "F"

\* filepath.Join(pkgDir, name): the package path stands for its directory.
FilePath(pkg, name) == pkg \o <<"/">> \o name

DiscTarget(pkg, testFile, funcDecl) ==
    [Package |-> pkg, Name |-> funcDecl.Name, FilePath |-> testFile,
     FuncName |-> funcDecl.Name,
     Description |-> IF funcDecl.Doc # NoDoc THEN DocText(funcDecl.Doc, 1)
                     ELSE <<>>]

\* The loop over file.Decls of findTargetsInPackage from declaration i on.
RECURSIVE declLoop(_, _, _, _)
declLoop(pkg, testFile, decls, i) ==
    IF i > Len(decls) THEN <<>>
    ELSE LET decl == decls[i] IN
         IF decl.node # "FuncDecl" THEN declLoop(pkg, testFile, decls, i + 1)
         ELSE IF HasPrefix(decl.Name, "Fuzz") /\ hasFuzzParameter(decl)
         THEN <<DiscTarget(pkg, testFile, decl)>>
                 \o declLoop(pkg, testFile, decls, i + 1)
         ELSE declLoop(pkg, testFile, decls, i + 1)

\* filepath.Glob(filepath.Join(pkgDir, "*_test.go")): the matching names of
\* the directory, sorted.
GlobTestFiles(pr, pkg) ==
    LET names == SelectSeq(pr.ls[pkg], LAMBDA n : HasSuffix(n, "_test.go"))
    IN [i \in DOMAIN names |-> FilePath(pkg, names[i])]

NoTargets == [err |-> TRUE, targets |-> <<>>]

\* Mutant of fileLoop: a file that does not parse is passed over.
RECURSIVE fileLoopLenient(_, _, _, _, _)
fileLoopLenient(pr, pkg, testFiles, i, targets) ==
    IF i > Len(testFiles) THEN [err |-> FALSE, targets |-> targets]
    ELSE LET file == pr.parse[testFiles[i]] IN
         IF ~file.ok THEN fileLoopLenient(pr, pkg, testFiles, i + 1, targets)
         ELSE fileLoopLenient(pr, pkg, testFiles, i + 1,
                       targets \o declLoop(pkg, testFiles[i], file.Decls, 1))

\* The loop over the test files of findTargetsInPackage from file i on.
RECURSIVE fileLoop(_, _, _, _, _)
fileLoop(pr, pkg, testFiles, i, targets) ==
    IF i > Len(testFiles) THEN [err |-> FALSE, targets |-> targets]
    ELSE LET file == pr.parse[testFiles[i]] IN
         IF ~file.ok THEN NoTargets
         ELSE fileLoop(pr, pkg, testFiles, i + 1,
                       targets \o declLoop(pkg, testFiles[i], file.Decls, 1))

\* findTargetsInPackage: go list -f {{.Dir}} fails, or a file does not
\* parse, or the targets of the package.
findTargetsInPackage(pr, pkg) ==
    IF ~pr.dir[pkg] THEN NoTargets
    ELSE fileLoop(pr, pkg, GlobTestFiles(pr, pkg), 1, <<>>)

\* listPackages from pattern i on: the lines go list prints, pattern after
\* pattern.
RECURSIVE listPackages(_, _, _, _)
listPackages(pr, patterns, i, pkgs) ==
    IF i > Len(patterns) THEN [err |-> FALSE, pkgs |-> pkgs]
    ELSE LET out == pr.list[patterns[i]] IN
         IF ~out.ok THEN [err |-> TRUE, pkgs |-> <<>>]
         ELSE listPackages(pr, patterns, i + 1, pkgs \o out.pkgs)

\* Mutant of packageLoop: the targets of a package go in front of the list.
RECURSIVE packageLoopPrepend(_, _, _, _)
packageLoopPrepend(pr, pkgs, i, targets) ==
    IF i > Len(pkgs) THEN [err |-> FALSE, targets |-> targets]
    ELSE LET r == findTargetsInPackage(pr, pkgs[i]) IN
         IF r.err THEN NoTargets
         ELSE packageLoopPrepend(pr, pkgs, i + 1, r.targets \o targets)

\* The loop over the packages of DiscoverTargets from package i on.
RECURSIVE packageLoop(_, _, _, _)
packageLoop(pr, pkgs, i, targets) ==
    IF i > Len(pkgs) THEN [err |-> FALSE, targets |-> targets]
    ELSE LET r == findTargetsInPackage(pr, pkgs[i]) IN
         IF r.err THEN NoTargets
         ELSE packageLoop(pr, pkgs, i + 1, targets \o r.targets)

\* Target.HasChangedSince: git diff --name-only gitRef -- FilePath fails,
\* or the file has changed if it prints anything.
HasChangedSince(pr, t) ==
    [changed |-> pr.diff[t.FilePath] = "changed",
     err |-> pr.diff[t.FilePath] = "fail"]

\* The filter loop of DiscoverTargets from target i on.
RECURSIVE filterLoop(_, _, _, _)
filterLoop(pr, targets, i, filteredTargets) ==
    IF i > Len(targets) THEN [err |-> FALSE, targets |-> filteredTargets]
    ELSE LET c == HasChangedSince(pr, targets[i]) IN
         IF c.err THEN NoTargets
         ELSE filterLoop(pr, targets, i + 1,
                         IF c.changed THEN Append(filteredTargets, targets[i])
                         ELSE filteredTargets)

\* DiscoverTargets(options) on the source tree pr.
DiscoverTargets(pr, options) ==
    LET l == listPackages(pr, options.Patterns, 1, <<>>) IN
    IF l.err THEN NoTargets
    ELSE LET f == packageLoop(pr, l.pkgs, 1, <<>>) IN
         IF f.err THEN NoTargets
         ELSE IF options.ChangedOnly THEN filterLoop(pr, f.targets, 1, <<>>)
         ELSE f

----------------------------------------------------------------------------
(* pkg/config/config.go and internal/runner/engine.go *)

\* TimeAllocation holds float64 fractions; a fraction is kept as its
\* numerator over AllocDen, and the product with FuzzTime is exact.
AllocDen == 20

DefaultKey == <<"default">>

\* A Go map read: the zero value when the key is missing.
MapGet(m, k) == IF k \in DOMAIN m THEN m[k] ELSE 0

\* time.Duration(float64(totalTime) * allocation): the conversion to an
\* integer drops the fraction (towards zero).
ToDuration(total, alloc) ==
    LET x == total * alloc IN
    IF x >= 0 THEN x \div AllocDen ELSE -((-x) \div AllocDen)

\* Mutant of getTargetDuration: a package without an entry gets the whole
\* budget instead of the default fraction.
getTargetDurationNoDefault(cfg, t) ==
    IF t.Package \in DOMAIN cfg.TimeAllocation
    THEN ToDuration(cfg.FuzzTime, cfg.TimeAllocation[t.Package])
    ELSE cfg.FuzzTime

\* FuzzEngine.getTargetDuration
getTargetDuration(cfg, t) ==
    IF t.Package \in DOMAIN cfg.TimeAllocation
    THEN ToDuration(cfg.FuzzTime, cfg.TimeAllocation[t.Package])
    ELSE ToDuration(cfg.FuzzTime, MapGet(cfg.TimeAllocation, DefaultKey))

\* The configurations a run is started with: time in seconds.
Configs ==
    { [FuzzTime |-> 300, TimeAllocation |-> (PkgCodec :> 10) @@ (DefaultKey :> 2)] }

\* The target lists discovery hands to the engine: repeats included
\* (overlapping patterns list a package twice).  A list begins with the
\* target of pkg/codec: the two packages differ in their time allocation
\* only, and the lists that begin with the other one mirror these.
RunTargets == {Target(PkgCodec, "FuzzDecode"), Target(PkgB, "FuzzDecode")}

TargetLists ==
    {l \in UNION {[1..n -> RunTargets] : n \in 0..MaxTargets} :
        Len(l) > 0 => l[1].Package = PkgCodec}

\* Names the harness gives to crash artifacts, as filepath.Glob lists them.
CrashOrder == << <<"c1">>, <<"c1", ".output">>, <<"c2">> >>

CrashNames == {CrashOrder[i] : i \in DOMAIN CrashOrder}

\* The artifacts of the runs with several targets: one input and its sidecar.
RunCrashNames == {CrashOrder[1], CrashOrder[2]}

\* filepath.Join(tempDir, "crashers", name)
crasherPath(dir, name) == <<"fuzz-run-", dir, "/", "crashers", "/">> \o name

\* filepath.Glob(filepath.Join(tempDir, "crashers", "*"))
Glob(dir, crashers) ==
    LET present == SelectSeq(CrashOrder, LAMBDA c : c \in crashers)
    IN [i \in DOMAIN present |-> crasherPath(dir, present[i])]

\* Mutant of CrashInputs: the sidecar files are listed too.
CrashInputsUnfiltered(dir, crashers) == Glob(dir, crashers)

\* The crash-input loop of RunTarget.
CrashInputs(dir, crashers) ==
    SelectSeq(Glob(dir, crashers), LAMBDA c : ~HasSuffix(c, ".output"))

\* The walk of copyDir from entry i on: directories are passed over, every
\* regular file is copied under its relative path.
RECURSIVE copyDirWalk(_, _, _, _)
copyDirWalk(i, src, dst, fault) ==
    IF i > Len(Names) THEN [dir |-> dst, err |-> FALSE]
    ELSE LET n == Names[i] IN
         IF ~IsFile(src.entries[n])
         THEN copyDirWalk(i + 1, src, dst, fault)
         ELSE LET r == copyFile(src.entries[n], dst, n,
                                IF fault.name = n THEN fault.kind ELSE "none")
              IN IF r.err THEN r ELSE copyDirWalk(i + 1, r.dir, src, fault)

\* Mutant of copyDir: the error of the walk is dropped.
copyDirUnchecked(src, dst, fault) ==
    IF ~src.exists THEN [dir |-> dst, err |-> FALSE]
    ELSE [dir |-> copyDirWalk(1, src, dst, fault).dir, err |-> FALSE]

\* copyDir(src, dst): filepath.Walk hands the callback the error of a root
\* that cannot be read, and the callback returns it.
copyDir(src, dst, fault) ==
    IF ~src.exists THEN [dir |-> dst, err |-> TRUE]
    ELSE copyDirWalk(1, src, dst, fault)

\* os.MkdirTemp("", "fuzz-run-*"): a directory that did not exist.
MkdirTemp == CHOOSE i \in 1..(Cardinality(workspaces) + 1) : i \notin workspaces

NoResult == [Success |-> FALSE]

NewResult(t, success, message, crashInputs, items) ==
    [Target |-> t, Success |-> success, ErrorMessage |-> message,
     CrashInputs |-> crashInputs, NewCorpusItems |-> items]

\* What the harness can print: nothing, a short text, or one byte more than
\* the run command displays.
DisplayLen == 100

NoOutput == <<>>

ShortOutput == <<"F", "A", "I", "L">>

LongOutput == [i \in 1..(DisplayLen + 1) |-> "x"]

Outputs == {NoOutput, ShortOutput, LongOutput}

\* truncate(s, maxLen) of the run command.
truncate(s, maxLen) ==
    IF Len(s) <= maxLen THEN s
    ELSE SubSeq(s, 1, maxLen - 3) \o <<".", ".", ".">>

\* Mutant of RemoveAll: the directory is removed at the end of a successful
\* run only, not by a deferred call.
RemoveAllOnSuccess(ws, dir, err) == IF err THEN ws ELSE ws \ {dir}

\* The deferred os.RemoveAll(tempDir): it runs on every return of RunTarget
\* after the directory was made, whatever the function returns.
RemoveAll(ws, dir, err) == ws \ {dir}

\* The values the OS calls of RunTarget's staging can be given.
StageInputs ==
    [tempOk : BOOLEAN, mkdirOk : BOOLEAN, corpusOk : BOOLEAN,
     fault : CopyFaults, crashOk : BOOLEAN]

\* RunTarget from its entry to the start of the harness process.  stage
\* names the call that failed, made says whether tempDir was created.
RunTargetStage(m, cfg, t, in) ==
    IF ~in.tempOk
    THEN [err |-> TRUE, stage |-> "mkdirtemp", made |-> FALSE,
          persist |-> m.persist, TargetDirs |-> m.TargetDirs,
          wsCorpus |-> NoDir, fuzztime |-> 0]
    ELSE LET g == GetTargetDir(m, t, in.mkdirOk)
             tempCorpusDir == MkdirAll(NoDir, in.corpusOk)
             c == copyDir(g.persist[g.dir], tempCorpusDir, in.fault)
             out(e, st) == [err |-> e, stage |-> st, made |-> TRUE,
                            persist |-> g.persist, TargetDirs |-> g.TargetDirs,
                            wsCorpus |-> c.dir,
                            fuzztime |-> getTargetDuration(cfg, t)]
         IN IF ~in.corpusOk THEN out(TRUE, "mkcorpus")
            ELSE IF c.err THEN out(TRUE, "copydir")
            ELSE IF ~in.crashOk THEN out(TRUE, "mkcrashers")
            ELSE out(FALSE, "none")

\* Mutant of RunTargetFinish: a failing harness is returned as an error.
RunTargetFinishFailOnExit(m, t, dir, corpus, crashers, exit, output, fault, outcome) ==
    LET i == ImportNewCorpusEntries(m, t, corpus, TRUE, fault, outcome)
        e == i.err \/ exit # 0
    IN [err |-> e,
        stage |-> IF i.err THEN "import" ELSE IF e THEN "harness" ELSE "none",
        result |-> IF e THEN NoResult
                   ELSE NewResult(t, TRUE, NoOutput, <<>>,
                                  Cardinality(Entries(corpus))),
        persist |-> i.persist, TargetDirs |-> i.TargetDirs,
        imports |-> 1, importErr |-> i.err, istage |-> i.stage,
        copied |-> i.copied, procs |-> i.procs]

\* Mutant of RunTargetFinish: the corpus is imported after a passing run only.
RunTargetFinishImportOnSuccess(m, t, dir, corpus, crashers, exit, output, fault, outcome) ==
    LET i == ImportNewCorpusEntries(m, t, corpus, TRUE, fault, outcome)
    IN IF exit # 0
       THEN [err |-> FALSE, stage |-> "none",
             result |-> NewResult(t, FALSE, output, CrashInputs(dir, crashers),
                                  Cardinality(Entries(corpus))),
             persist |-> m.persist, TargetDirs |-> m.TargetDirs,
             imports |-> 0, importErr |-> FALSE, istage |-> "none",
             copied |-> {}, procs |-> 0]
       ELSE [err |-> i.err,
             stage |-> IF i.err THEN "import" ELSE "none",
             result |-> IF i.err THEN NoResult
                        ELSE NewResult(t, TRUE, NoOutput, <<>>,
                                       Cardinality(Entries(corpus))),
             persist |-> i.persist, TargetDirs |-> i.TargetDirs,
             imports |-> 1, importErr |-> i.err, istage |-> i.stage,
             copied |-> i.copied, procs |-> i.procs]

\* Mutant of RunTargetFinish: NewCorpusItems counts the files the import
\* copied.
RunTargetFinishCountsCopied(m, t, dir, corpus, crashers, exit, output, fault, outcome) ==
    LET crashInputs == IF exit # 0 THEN CrashInputs(dir, crashers) ELSE <<>>
        message == IF exit # 0 THEN output ELSE NoOutput
        i == ImportNewCorpusEntries(m, t, corpus, TRUE, fault, outcome)
    IN [err |-> i.err,
        stage |-> IF i.err THEN "import" ELSE "none",
        result |-> IF i.err THEN NoResult
                   ELSE NewResult(t, exit = 0, message, crashInputs,
                                  Cardinality(i.copied)),
        persist |-> i.persist, TargetDirs |-> i.TargetDirs,
        imports |-> 1, importErr |-> i.err, istage |-> i.stage,
        copied |-> i.copied, procs |-> i.procs]

\* Mutant of RunTargetFinish: the Result that was classified is returned
\* even when the import failed.
RunTargetFinishKeepsResult(m, t, dir, corpus, crashers, exit, output, fault, outcome) ==
    LET crashInputs == IF exit # 0 THEN CrashInputs(dir, crashers) ELSE <<>>
        message == IF exit # 0 THEN output ELSE NoOutput
        i == ImportNewCorpusEntries(m, t, corpus, TRUE, fault, outcome)
    IN [err |-> FALSE,
        stage |-> "none",
        result |-> NewResult(t, exit = 0, message, crashInputs,
                             Cardinality(Entries(corpus))),
        persist |-> i.persist, TargetDirs |-> i.TargetDirs,
        imports |-> 1, importErr |-> i.err, istage |-> i.stage,
        copied |-> i.copied, procs |-> i.procs]

\* RunTarget from the return of cmd.CombinedOutput to its own return:
\* what it returns, the manager state it leaves, and what the import did
\* (imports counts the calls of ImportNewCorpusEntries).
RunTargetFinish(m, t, dir, corpus, crashers, exit, output, fault, outcome) ==
    LET crashInputs == IF exit # 0 THEN CrashInputs(dir, crashers) ELSE <<>>
        message == IF exit # 0 THEN output ELSE NoOutput
        imported(i) ==
            [err |-> i.err,
             stage |-> IF i.err THEN "import" ELSE "none",
             result |-> IF i.err THEN NoResult
                        ELSE NewResult(t, exit = 0, message, crashInputs,
                                       Cardinality(Entries(corpus))),
             persist |-> i.persist, TargetDirs |-> i.TargetDirs,
             imports |-> 1, importErr |-> i.err, istage |-> i.stage,
             copied |-> i.copied, procs |-> i.procs]
    IN Only({imported(i) :
                i \in {ImportNewCorpusEntries(m, t, corpus, TRUE, fault, outcome)}})

\* Mutant of RunAllStep: an error skips the target and the loop goes on.
RunAllStepContinue(results, i, r) ==
    IF r.err THEN [Results |-> results, pc |-> "loop", idx |-> i + 1]
    ELSE [Results |-> Append(results, r.result), pc |-> "loop", idx |-> i + 1]

\* Mutant of RunAllStep: the new Result is put in front of the list.
RunAllStepPrepend(results, i, r) ==
    IF r.err THEN [Results |-> results, pc |-> "failed", idx |-> i]
    ELSE [Results |-> <<r.result>> \o results, pc |-> "loop", idx |-> i + 1]

\* Mutant of RunAllStep: a target whose run returned an error is run again.
RunAllStepRetry(results, i, r) ==
    IF r.err THEN [Results |-> results, pc |-> "loop", idx |-> i]
    ELSE [Results |-> Append(results, r.result), pc |-> "loop", idx |-> i + 1]

\* The body of RunAll's loop after RunTarget returned r for target number
\* i: the new Results, and where RunAll goes.
RunAllStep(results, i, r) ==
    IF r.err THEN [Results |-> results, pc |-> "failed", idx |-> i]
    ELSE [Results |-> Append(results, r.result), pc |-> "loop", idx |-> i + 1]

----------------------------------------------------------------------------
(* The program: fuzzctl run, one engine per run, over one corpus tree *)

NoCrashers == {}

\* The corpus directories a run of the program can find on disk: none, or
\* for every target the directory an earlier run left with one file.
SeedDirs == {NoDir, [EmptyDir EXCEPT !.entries[Names[1]] = File(MaxContent)]}

SeedTrees == {[p \in Paths |-> d] : d \in SeedDirs}

\* The state after NewFuzzEngine(cfg, targets), as the run command calls it.
Init ==
    /\ persist \in SeedTrees
    /\ \E cfg \in Configs, targets \in TargetLists :
         /\ Config = cfg
         /\ Targets = targets
    /\ Minimization = CoverageMinimization
    /\ TargetDirs = [k \in Keys |-> NoPath]
    /\ Results = <<>>
    /\ idx = 1
    /\ pc = "loop"
    /\ workspaces = {}
    /\ tempDir = 0
    /\ wsCorpus = NoDir
    /\ wsCrashers = NoCrashers
    /\ exitCode = 0
    /\ calls = 0
    /\ project = NoProject
    /\ instances = NoInstances
    /\ last = [op |-> "NewFuzzEngine"]

\* RunAll takes the next target and calls RunTarget, which stages it and
\* starts the harness, or fails and returns the error.
BeginTarget ==
    /\ pc = "loop"
    /\ idx <= Len(Targets)
    /\ \E in \in StageInputs :
         LET t == Targets[idx]
             dir == MkdirTemp
             r == RunTargetStage(Mgr(persist, TargetDirs, Minimization),
                                 Config, t, in)
         IN /\ persist' = r.persist
            /\ TargetDirs' = r.TargetDirs
            /\ IF r.err
               THEN /\ workspaces' =
                         IF r.made THEN RemoveAll(workspaces \cup {dir}, dir, TRUE)
                         ELSE workspaces
                    /\ tempDir' = 0
                    /\ wsCorpus' = NoDir
                    /\ pc' = "returned"
                    /\ last' = [op |-> "RunTarget", target |-> t, err |-> TRUE,
                                result |-> NoResult,
                                stage |-> r.stage, harness |-> "notrun",
                                made |-> r.made, crashers |-> NoCrashers,
                                imports |-> 0,
                                importErr |-> FALSE, istage |-> "none",
                                copied |-> {}, procs |-> 0, minExit |-> 0]
               ELSE /\ workspaces' = workspaces \cup {dir}
                    /\ tempDir' = dir
                    /\ wsCorpus' = r.wsCorpus
                    /\ pc' = "executing"
                    /\ last' = [op |-> "exec", target |-> t,
                                fuzztime |-> r.fuzztime, procs |-> 1]
    /\ UNCHANGED <<Minimization, Config, Targets, Results, idx, wsCrashers,
                   exitCode, calls, project, instances>>

\* Corpus directories the harness can leave: the staged one, or the staged
\* one with a new entry, a file or a directory, under a name that was free.
HarnessCorpora(d) ==
    {d} \cup {[d EXCEPT !.entries[n] = e] :
                n \in NameSet \ Entries(d), e \in {SubDir, File(1)}}

\* The harness process ends: cmd.CombinedOutput returns.  names are the
\* crash artifacts it can have written, outputs the texts it can have
\* printed.
HarnessEnds(names, outputs) ==
    /\ pc = "executing"
    /\ \E exit \in {0, 1}, corpus \in HarnessCorpora(wsCorpus),
          crashers \in SUBSET names, output \in outputs :
         /\ exit = 0 => crashers = {}
         /\ exitCode' = exit
         /\ wsCorpus' = corpus
         /\ wsCrashers' = crashers
         /\ last' = [op |-> "harness", target |-> Targets[idx],
                     output |-> output]
    /\ pc' = "exited"
    /\ UNCHANGED <<persist, TargetDirs, Minimization, Config, Targets, Results,
                   idx, workspaces, tempDir, calls, project, instances>>

HarnessExit == HarnessEnds(RunCrashNames, {ShortOutput})

\* RunTarget classifies, imports, counts and returns its Result or error.
FinishTarget ==
    /\ pc = "exited"
    /\ \E fault \in FaultsOn(Copyable(persist[targetPath(Targets[idx])], wsCorpus)) :
       \E outcome \in ImportOutcomes(Minimization, fault,
                        Files(persist[targetPath(Targets[idx])]) \cup Files(wsCorpus)) :
       LET t == Targets[idx] IN
       \E r \in {RunTargetFinish(Mgr(persist, TargetDirs, Minimization), t,
                                  tempDir, wsCorpus, wsCrashers, exitCode,
                                  last.output, fault, outcome)} :
            /\ persist' = r.persist
            /\ TargetDirs' = r.TargetDirs
            /\ workspaces' = RemoveAll(workspaces, tempDir, r.err)
            /\ last' = [op |-> "RunTarget", target |-> t, err |-> r.err,
                        result |-> r.result, stage |-> r.stage,
                        harness |-> IF exitCode = 0 THEN "zero" ELSE "nonzero",
                        made |-> TRUE, crashers |-> wsCrashers,
                        imports |-> r.imports,
                        importErr |-> r.importErr, istage |-> r.istage,
                        copied |-> r.copied, procs |-> r.procs,
                        minExit |-> outcome.exit]
    /\ tempDir' = 0
    /\ wsCorpus' = NoDir
    /\ wsCrashers' = NoCrashers
    /\ exitCode' = 0
    /\ pc' = "returned"
    /\ UNCHANGED <<Minimization, Config, Targets, Results, idx, calls, project, instances>>

\* RunTarget has returned to RunAll, which appends the Result and goes on
\* with the next target, or returns the error.
RunAllCollect ==
    /\ pc = "returned"
    /\ LET s == RunAllStep(Results, idx, last)
       IN /\ Results' = s.Results
          /\ pc' = s.pc
          /\ idx' = s.idx
    /\ last' = [op |-> "RunAllStep", err |-> last.err]
    /\ UNCHANGED <<persist, TargetDirs, Minimization, Config, Targets,
                   workspaces, tempDir, wsCorpus, wsCrashers, exitCode,
                   calls, project, instances>>

\* RunAll's loop is over: it returns nil.
RunAllReturn ==
    /\ pc = "loop"
    /\ idx > Len(Targets)
    /\ pc' = "done"
    /\ last' = [op |-> "RunAll", err |-> FALSE]
    /\ UNCHANGED <<persist, TargetDirs, Minimization, Config, Targets, Results,
                   idx, workspaces, tempDir, wsCorpus, wsCrashers,
                   exitCode, calls, project, instances>>

\* The run command prints the Results after RunAll returned nil: for a
\* failing target, the ErrorMessage cut to DisplayLen bytes.
PrintResults ==
    /\ pc = "done"
    /\ pc' = "printed"
    /\ last' = [op |-> "print",
                errors |-> [i \in DOMAIN Results |->
                              IF Results[i].Success THEN NoOutput
                              ELSE truncate(Results[i].ErrorMessage, DisplayLen)]]
    /\ UNCHANGED <<persist, TargetDirs, Minimization, Config, Targets, Results,
                   idx, workspaces, tempDir, wsCorpus, wsCrashers,
                   exitCode, calls, project, instances>>

Next == BeginTarget \/ HarnessExit \/ FinishTarget \/ RunAllCollect \/ RunAllReturn

Spec == Init /\ [][Next]_vars

\* The engine is sequential code that runs on: each of its steps is taken
\* when it can be.  The harness is another process; that it ends once
\* started is the condition under which termination is claimed.
SpecLive ==
    /\ Init /\ [][Next]_vars
    /\ WF_vars(BeginTarget)
    /\ WF_vars(HarnessExit)
    /\ WF_vars(FinishTarget)
    /\ WF_vars(RunAllCollect)
    /\ WF_vars(RunAllReturn)

----------------------------------------------------------------------------
(* The corpus manager called on its own: a session of calls on one disk *)

\* The targets a session passes: two packages that differ in '/' against '_'.
MgrTargets == {Target(PkgCodec, "FuzzDecode"), Target(PkgCodecFlat, "FuzzDecode")}

\* The directories a caller can name as newEntriesDir: a missing one, or
\* one whose first entry is anything and whose second is a file or nothing.
SrcDirs ==
    {NoDir} \cup
    {[exists |-> TRUE, entries |-> e] :
        e \in {f \in [NameSet -> {Absent, SubDir} \cup {File(c) : c \in Contents}] :
                 f[Names[2]] \in {Absent, File(1)}}}

\* The state after NewCorpusManager(baseDir, minimization) on an empty disk.
InitMgr ==
    /\ persist = [p \in Paths |-> NoDir]
    /\ TargetDirs = [k \in Keys |-> NoPath]
    /\ Minimization \in Strategies
    /\ Config = CHOOSE cfg \in Configs : TRUE
    /\ Targets = <<>>
    /\ Results = <<>>
    /\ idx = 1
    /\ pc = "mgr"
    /\ workspaces = {}
    /\ tempDir = 0
    /\ wsCorpus = NoDir
    /\ wsCrashers = NoCrashers
    /\ exitCode = 0
    /\ calls = 0
    /\ project = NoProject
    /\ instances = NoInstances
    /\ last = [op |-> "NewCorpusManager"]

engineVars == <<Config, Targets, Results, idx, pc, workspaces, tempDir,
                wsCorpus, wsCrashers, exitCode, project, instances>>

\* NewCorpusManager again: another manager instance on the same disk.
MgrNew ==
    /\ pc = "mgr"
    /\ calls < MaxCalls
    /\ calls' = calls + 1
    /\ Minimization' \in Strategies
    /\ TargetDirs' = [k \in Keys |-> NoPath]
    /\ last' = [op |-> "NewCorpusManager"]
    /\ UNCHANGED <<persist, engineVars>>

\* A call of ImportNewCorpusEntries(t, newEntriesDir).
MgrImport ==
    /\ pc = "mgr"
    /\ calls < MaxCalls
    /\ calls' = calls + 1
    /\ \E t \in MgrTargets, src \in SrcDirs :
         \E mkdirOk \in MkdirOutcomes(TargetDirs, t),
            fault \in FaultsOn(Copyable(persist[targetPath(t)], src)) :
         \E outcome \in ImportOutcomes(Minimization, fault,
                          Files(persist[targetPath(t)]) \cup Files(src)) :
           LET r == ImportNewCorpusEntries(Mgr(persist, TargetDirs, Minimization),
                                           t, src, mkdirOk, fault, outcome)
           IN /\ persist' = r.persist
              /\ TargetDirs' = r.TargetDirs
              /\ last' = [op |-> "Import", target |-> t, src |-> src,
                          again |-> /\ last.op = "Import"
                                    /\ last.target = t
                                    /\ last.src = src
                                    /\ ~last.err,
                          err |-> r.err, stage |-> r.stage, bad |-> r.bad,
                          copied |-> r.copied, procs |-> r.procs,
                          min |-> outcome]
    /\ UNCHANGED <<Minimization, engineVars>>

\* A call of Minimize(t).
MgrMinimize ==
    /\ pc = "mgr"
    /\ calls < MaxCalls
    /\ calls' = calls + 1
    /\ \E t \in MgrTargets :
         \E mkdirOk \in MkdirOutcomes(TargetDirs, t),
            outcome \in OutcomesFor(Minimization, Files(persist[targetPath(t)])) :
         LET r == Minimize(Mgr(persist, TargetDirs, Minimization),
                           t, mkdirOk, outcome)
         IN /\ persist' = r.persist
            /\ TargetDirs' = r.TargetDirs
            /\ last' = [op |-> "Minimize", target |-> t, err |-> r.err,
                        procs |-> r.procs]
    /\ UNCHANGED <<Minimization, engineVars>>

\* A call of GetTargetDir(t).
MgrGetTargetDir ==
    /\ pc = "mgr"
    /\ calls < MaxCalls
    /\ calls' = calls + 1
    /\ \E t \in MgrTargets, mkdirOk \in BOOLEAN :
         LET r == GetTargetDir(Mgr(persist, TargetDirs, Minimization), t, mkdirOk)
         IN /\ persist' = r.persist
            /\ TargetDirs' = r.TargetDirs
            /\ last' = [op |-> "GetTargetDir", target |-> t, dir |-> r.dir,
                        mkdirs |-> r.mkdirs]
    /\ UNCHANGED <<Minimization, engineVars>>

NextMgr == MgrNew \/ MgrImport \/ MgrMinimize \/ MgrGetTargetDir

SpecMgr == InitMgr /\ [][NextMgr]_vars

----------------------------------------------------------------------------
(* One run of one target under every configuration of a small family *)

FuzzTimes == {0, 5, 300}

AllocValues == {0, 2, 10}

\* Allocation maps with and without an entry for pkg/codec and for "default".
Allocations == UNION {[D -> AllocValues] : D \in SUBSET {PkgCodec, DefaultKey}}

BudgetConfigs == [FuzzTime : FuzzTimes, TimeAllocation : Allocations]

\* The state after NewFuzzEngine(cfg, <<t>>) on an empty corpus directory.
InitBudget ==
    /\ persist = [p \in Paths |-> NoDir]
    /\ Config \in BudgetConfigs
    /\ Targets \in {<<t>> : t \in TargetUniverse}
    /\ Minimization = CoverageMinimization
    /\ TargetDirs = [k \in Keys |-> NoPath]
    /\ Results = <<>>
    /\ idx = 1
    /\ pc = "loop"
    /\ workspaces = {}
    /\ tempDir = 0
    /\ wsCorpus = NoDir
    /\ wsCrashers = NoCrashers
    /\ exitCode = 0
    /\ calls = 0
    /\ project = NoProject
    /\ instances = NoInstances
    /\ last = [op |-> "NewFuzzEngine"]

SpecBudget == InitBudget /\ [][Next]_vars

----------------------------------------------------------------------------
(* fuzzctl run with one target, whose harness can leave any set of crash    *)
(* artifacts and print any of the outputs                                  *)

\* The state after NewFuzzEngine(cfg, <<t>>).
InitCrash ==
    /\ persist \in SeedTrees
    /\ Config \in Configs
    /\ Targets \in {<<t>> : t \in RunTargets}
    /\ Minimization = CoverageMinimization
    /\ TargetDirs = [k \in Keys |-> NoPath]
    /\ Results = <<>>
    /\ idx = 1
    /\ pc = "loop"
    /\ workspaces = {}
    /\ tempDir = 0
    /\ wsCorpus = NoDir
    /\ wsCrashers = NoCrashers
    /\ exitCode = 0
    /\ calls = 0
    /\ project = NoProject
    /\ instances = NoInstances
    /\ last = [op |-> "NewFuzzEngine"]

HarnessExitAny == HarnessEnds(CrashNames, Outputs)

NextCrash ==
    \/ BeginTarget \/ HarnessExitAny \/ FinishTarget \/ RunAllCollect
    \/ RunAllReturn \/ PrintResults

SpecCrash == InitCrash /\ [][NextCrash]_vars

----------------------------------------------------------------------------
(* One engine whose two targets are in packages that differ in '/' against *)
(* '_' only                                                                *)

SharedTargets ==
    <<Target(PkgCodec, "FuzzDecode"), Target(PkgCodecFlat, "FuzzDecode")>>

\* The state after NewFuzzEngine(cfg, SharedTargets).
InitShared ==
    /\ persist \in SeedTrees
    /\ Config \in Configs
    /\ Targets = SharedTargets
    /\ Minimization = CoverageMinimization
    /\ TargetDirs = [k \in Keys |-> NoPath]
    /\ Results = <<>>
    /\ idx = 1
    /\ pc = "loop"
    /\ workspaces = {}
    /\ tempDir = 0
    /\ wsCorpus = NoDir
    /\ wsCrashers = NoCrashers
    /\ exitCode = 0
    /\ calls = 0
    /\ project = NoProject
    /\ instances = NoInstances
    /\ last = [op |-> "NewFuzzEngine"]

SpecShared == InitShared /\ [][Next]_vars

----------------------------------------------------------------------------
(* Two manager instances that import side by side on one disk.  A call of  *)
(* ImportNewCorpusEntries is taken apart at its system calls: a step makes  *)
(* one access to the disk, and the steps of the two calls interleave.      *)

InstanceIds == {1, 2}

\* Bytes of a file two writers wrote at once: the bytes of one, then what
\* was left of the longer bytes of the other.
MixedData == -1

\* The directories the callers name as newEntriesDir: a missing one, or a
\* file followed by a directory or by a second file.
RaceSrcs ==
    {NoDir} \cup
    {[exists |-> TRUE, entries |-> (Names[1] :> File(c)) @@ (Names[2] :> e)] :
        c \in Contents, e \in {SubDir, File(1)}}

\* A manager instance inside ImportNewCorpusEntries(t, src): its fields, the
\* arguments and locals of the call, and what the call has done so far.
\* written are the names os.Create made or truncated, overwrote the files
\* with bytes that os.Create truncated, copied the names io.Copy finished.
Instance(t, src, mz) ==
    [TargetDirs |-> [k \in Keys |-> NoPath], Minimization |-> mz,
     target |-> t, src |-> src, pc |-> "resolve", dir |-> NoPath, i |-> 1,
     err |-> FALSE, stage |-> "none",
     written |-> {}, overwrote |-> {}, copied |-> {}]

\* The position of the next entry of src from position i on that is not a
\* directory: the range loop passes over the others.
RECURSIVE NextFile(_, _)
NextFile(src, i) ==
    IF i > Len(Names) THEN i
    ELSE IF IsFile(src.entries[Names[i]]) THEN i
    ELSE NextFile(src, i + 1)

\* Mutant of StatStep: the copy is made whether or not the name exists.
StatStepBlind(in, disk) ==
    LET j == NextFile(in.src, in.i) IN
    IF j > Len(Names)
    THEN [in EXCEPT !.i = j,
                    !.pc = IF in.Minimization = CoverageMinimization
                           THEN "minimize" ELSE "returned"]
    ELSE [in EXCEPT !.i = j, !.pc = "create"]

\* The head of the range loop up to os.Stat(dstPath): the loop is over, or
\* the entry exists and is passed over, or it is to be copied.
StatStep(in, disk) ==
    LET j == NextFile(in.src, in.i) IN
    IF j > Len(Names)
    THEN [in EXCEPT !.i = j,
                    !.pc = IF in.Minimization = CoverageMinimization
                           THEN "minimize" ELSE "returned"]
    ELSE IF Stat(disk[in.dir], Names[j])
    THEN [in EXCEPT !.i = j + 1]
    ELSE [in EXCEPT !.i = j, !.pc = "create"]

\* io.Copy into a file the writer created, as the file is now: an unlinked
\* file stays unlinked, bytes another writer wrote since are overwritten
\* from the start, and what is left of them stays when they are longer.
CopyResults(e, c, ok) ==
    IF e = Absent THEN {Absent}
    ELSE IF e = File(PartialData) \/ e = File(c)
    THEN {IF ok THEN File(c) ELSE File(PartialData)}
    ELSE IF ok THEN {File(c), File(MixedData)}
    ELSE {e, File(MixedData)}

\* The state after two calls of NewCorpusManager on the same base directory,
\* as each instance enters ImportNewCorpusEntries.
InitRace ==
    /\ persist \in SeedTrees
    /\ instances \in
         [InstanceIds -> {Instance(t, src, mz) :
                             t \in RunTargets, src \in RaceSrcs, mz \in Strategies}]
    /\ TargetDirs = [k \in Keys |-> NoPath]
    /\ Minimization = NoMinimization
    /\ Config = CHOOSE cfg \in Configs : TRUE
    /\ Targets = <<>>
    /\ Results = <<>>
    /\ idx = 1
    /\ pc = "race"
    /\ workspaces = {}
    /\ tempDir = 0
    /\ wsCorpus = NoDir
    /\ wsCrashers = NoCrashers
    /\ exitCode = 0
    /\ calls = 0
    /\ project = NoProject
    /\ last = [op |-> "NewCorpusManager"]

raceFrame == <<TargetDirs, Minimization, Config, Targets, Results, idx, pc,
               workspaces, tempDir, wsCorpus, wsCrashers, exitCode, calls,
               project>>

\* targetDir := m.GetTargetDir(t)
ImportResolve(id) ==
    /\ instances[id].pc = "resolve"
    /\ \E mkdirOk \in BOOLEAN :
         LET in == instances[id]
             g == GetTargetDir(Mgr(persist, in.TargetDirs, in.Minimization),
                               in.target, mkdirOk)
         IN /\ persist' = g.persist
            /\ instances' = [instances EXCEPT ![id] =
                               [in EXCEPT !.TargetDirs = g.TargetDirs,
                                          !.dir = g.dir, !.pc = "readdir"]]
    /\ last' = [op |-> "resolve", inst |-> id]
    /\ UNCHANGED raceFrame

\* entries, err := os.ReadDir(newEntriesDir)
ImportReadDir(id) ==
    /\ instances[id].pc = "readdir"
    /\ instances' = [instances EXCEPT ![id] =
                       IF @.src.exists THEN [@ EXCEPT !.pc = "stat"]
                       ELSE [@ EXCEPT !.pc = "returned", !.err = TRUE,
                                      !.stage = "readdir"]]
    /\ last' = [op |-> "readdir", inst |-> id]
    /\ UNCHANGED <<persist, raceFrame>>

\* The loop goes to its next entry and asks os.Stat for it.
ImportStat(id) ==
    /\ instances[id].pc = "stat"
    /\ instances' = [instances EXCEPT ![id] = StatStep(@, persist)]
    /\ last' = [op |-> "stat", inst |-> id]
    /\ UNCHANGED <<persist, raceFrame>>

\* copyFile up to os.Create(dst), which makes the file or truncates the one
\* that is there.
ImportCreate(id) ==
    /\ instances[id].pc = "create"
    /\ \E ok \in BOOLEAN :
         LET in == instances[id]
             n == Names[in.i]
             e == persist[in.dir].entries[n]
         IN IF ~ok \/ ~persist[in.dir].exists \/ e = SubDir
            THEN /\ persist' = persist
                 /\ instances' = [instances EXCEPT ![id] =
                                    [in EXCEPT !.pc = "returned", !.err = TRUE,
                                               !.stage = "copy"]]
            ELSE /\ persist' = [persist EXCEPT
                                  ![in.dir].entries[n] = File(PartialData)]
                 /\ instances' = [instances EXCEPT ![id] =
                                    [in EXCEPT
                                       !.pc = "copy",
                                       !.written = @ \cup {n},
                                       !.overwrote =
                                          IF IsFile(e) /\ e # File(PartialData)
                                          THEN @ \cup {<<n, e>>} ELSE @]]
    /\ last' = [op |-> "create", inst |-> id]
    /\ UNCHANGED raceFrame

\* io.Copy(out, in) and the return of copyFile.
ImportCopy(id) ==
    /\ instances[id].pc = "copy"
    /\ \E ok \in BOOLEAN :
         LET in == instances[id]
             n == Names[in.i]
         IN \E e \in CopyResults(persist[in.dir].entries[n],
                                 in.src.entries[n][2], ok) :
              /\ persist' = [persist EXCEPT ![in.dir].entries[n] = e]
              /\ instances' = [instances EXCEPT ![id] =
                                 IF ok
                                 THEN [in EXCEPT !.pc = "stat", !.i = @ + 1,
                                                 !.copied = @ \cup {n}]
                                 ELSE [in EXCEPT !.pc = "returned", !.err = TRUE,
                                                 !.stage = "copy"]]
    /\ last' = [op |-> "copy", inst |-> id]
    /\ UNCHANGED raceFrame

\* m.Minimize(t) at the end of the import: the minimizer process runs and
\* ends.
ImportMinimize(id) ==
    /\ instances[id].pc = "minimize"
    /\ \E outcome \in OutcomesFor(instances[id].Minimization,
                                  Files(persist[instances[id].dir])) :
         LET in == instances[id]
             z == Minimize(Mgr(persist, in.TargetDirs, in.Minimization),
                           in.target, TRUE, outcome)
         IN /\ persist' = z.persist
            /\ instances' = [instances EXCEPT ![id] =
                               [in EXCEPT !.pc = "returned", !.err = z.err,
                                          !.stage = IF z.err THEN "minimize"
                                                    ELSE "none"]]
    /\ last' = [op |-> "minimize", inst |-> id]
    /\ UNCHANGED raceFrame

NextRace ==
    \E id \in InstanceIds :
       \/ ImportResolve(id) \/ ImportReadDir(id) \/ ImportStat(id)
       \/ ImportCreate(id) \/ ImportCopy(id) \/ ImportMinimize(id)

SpecRace == InitRace /\ [][NextRace]_vars

----------------------------------------------------------------------------
(* fuzzctl run up to the end of discovery, over a family of source trees *)

TestingF == StarExpr(SelectorExpr(Ident("testing"), "F"))

FuzzFoo ==
    FuncDecl(FALSE, <<"Fuzz", "Foo">>, <<Field(<<"f">>, TestingF)>>,
             <<CommentLine("finds foo bugs")>>)

FuzzDecode ==
    FuncDecl(FALSE, <<"Fuzz", "Decode">>, <<Field(<<"f">>, TestingF)>>, NoDoc)

NotAFuzzFunc ==
    FuncDecl(FALSE, <<"NotAFuzzFunc">>, <<Field(<<"x">>, Ident("int"))>>, NoDoc)

\* func TestFoo(f *testing.F): the parameter without the prefix.
TestFoo ==
    FuncDecl(FALSE, <<"Test", "Foo">>, <<Field(<<"f">>, TestingF)>>, NoDoc)

\* func FuzzValue(f testing.F): not a pointer.
FuzzValue ==
    FuncDecl(FALSE, <<"Fuzz", "Value">>,
             <<Field(<<"f">>, SelectorExpr(Ident("testing"), "F"))>>, NoDoc)

\* func FuzzT(t *testing.T)
FuzzT ==
    FuncDecl(FALSE, <<"Fuzz", "T">>,
             <<Field(<<"t">>, StarExpr(SelectorExpr(Ident("testing"), "T")))>>,
             NoDoc)

\* func FuzzNone()
FuzzNone == FuncDecl(FALSE, <<"Fuzz", "None">>, <<>>, NoDoc)

\* func FuzzTwo(f *testing.F, n int)
FuzzTwo ==
    FuncDecl(FALSE, <<"Fuzz", "Two">>,
             <<Field(<<"f">>, TestingF), Field(<<"n">>, Ident("int"))>>, NoDoc)

\* func (s *Suite) FuzzMethod(f *testing.F): a method.
FuzzMethod ==
    FuncDecl(TRUE, <<"Fuzz", "Method">>, <<Field(<<"f">>, TestingF)>>, NoDoc)

\* func FuzzPair(f, g *testing.F): two parameters declared in one entry.
FuzzPair ==
    FuncDecl(FALSE, <<"Fuzz", "Pair">>, <<Field(<<"f", "g">>, TestingF)>>, NoDoc)

FuzzEncode ==
    FuncDecl(FALSE, <<"Fuzz", "Encode">>, <<Field(<<"f">>, TestingF)>>,
             <<CommentLine("encodes"), CommentLine("and decodes")>>)

PatternAll == "./..."

PatternCodec == "./pkg/codec"

DiscPatterns == {PatternAll, PatternCodec}

\* The pattern lists of the run command: none, the default, and two
\* patterns that overlap.
PatternLists == {<<>>, <<PatternAll>>, <<PatternCodec, PatternAll>>}

DiscPkgs == {PkgCodec, PkgB}

\* The packages go list prints for a pattern when it succeeds.
Matches(pattern) ==
    IF pattern = PatternAll THEN <<PkgCodec, PkgB>> ELSE <<PkgCodec>>

\* The files of the package directories, sorted by name.
DirListing ==
    (PkgCodec :> << <<"codec", ".go">>, <<"codec", "_test.go">> >>)
    @@ (PkgB :> << <<"a", "_test.go">>, <<"b", ".go">>, <<"b", "_test.go">> >>)

CodecTest == FilePath(PkgCodec, <<"codec", "_test.go">>)

ATest == FilePath(PkgB, <<"a", "_test.go">>)

BTest == FilePath(PkgB, <<"b", "_test.go">>)

TestPaths == {CodecTest, ATest, BTest}

\* The declarations of the test files, in source order.
FileDecls ==
    (CodecTest :> <<GenDecl, FuzzFoo, NotAFuzzFunc, TestFoo, FuzzValue, FuzzT,
                    FuzzNone, FuzzTwo, FuzzDecode>>)
    @@ (ATest :> <<FuzzMethod, FuzzEncode>>)
    @@ (BTest :> <<FuzzPair, GenDecl, FuzzDecode>>)

DiffOutcomes == {"changed", "same", "fail"}

\* The source trees: every go list call, every parse and every git diff can
\* fail on its own.
Projects ==
    {[list |-> [pt \in DiscPatterns |->
                  [ok |-> l[pt], pkgs |-> IF l[pt] THEN Matches(pt) ELSE <<>>]],
      dir |-> d,
      ls |-> DirListing,
      parse |-> [f \in TestPaths |->
                   [ok |-> po[f], Decls |-> IF po[f] THEN FileDecls[f] ELSE <<>>]],
      diff |-> df] :
        l \in [DiscPatterns -> BOOLEAN], d \in [DiscPkgs -> BOOLEAN],
        po \in [TestPaths -> BOOLEAN], df \in [TestPaths -> DiffOutcomes]}

\* The state of the run command before it calls DiscoverTargets.
InitDisc ==
    /\ project \in Projects
    /\ Config \in [Patterns : PatternLists, ChangedOnly : BOOLEAN]
    /\ persist = [p \in Paths |-> NoDir]
    /\ TargetDirs = [k \in Keys |-> NoPath]
    /\ Minimization = CoverageMinimization
    /\ Targets = <<>>
    /\ Results = <<>>
    /\ idx = 1
    /\ pc = "discover"
    /\ workspaces = {}
    /\ tempDir = 0
    /\ wsCorpus = NoDir
    /\ wsCrashers = NoCrashers
    /\ exitCode = 0
    /\ calls = 0
    /\ instances = NoInstances
    /\ last = [op |-> "runCmd"]

\* The run command calls DiscoverTargets and returns its error, or goes on
\* with the targets.
Discover ==
    /\ pc = "discover"
    /\ LET r == DiscoverTargets(project, Config)
       IN /\ pc' = IF r.err THEN "undiscovered" ELSE "discovered"
          /\ Targets' = r.targets
          /\ last' = [op |-> "DiscoverTargets", err |-> r.err,
                      targets |-> r.targets]
    /\ UNCHANGED <<persist, TargetDirs, Minimization, Config, Results, idx,
                   workspaces, tempDir, wsCorpus, wsCrashers, exitCode,
                   calls, project, instances>>

NextDisc == Discover

SpecDisc == InitDisc /\ [][NextDisc]_vars

----------------------------------------------------------------------------
(* Claims about discovery, checked under SpecDisc *)

RECURSIVE Flatten(_)
Flatten(qq) == IF qq = <<>> THEN <<>> ELSE Head(qq) \o Flatten(Tail(qq))

\* The packages the patterns of the options enumerate, as far as go list
\* succeeds for them.
Enumerated(pr, options) ==
    Flatten([i \in DOMAIN options.Patterns |-> pr.list[options.Patterns[i]].pkgs])

\* The test files of a package, in directory order.
TestFilesOf(pr, pkg) ==
    LET names == SelectSeq(pr.ls[pkg], LAMBDA n : n[Len(n)] = "_test.go")
    IN [i \in DOMAIN names |-> pkg \o <<"/">> \o names[i]]

\* Something fails in the pass: go list for a pattern, the directory of an
\* enumerated package, or the parse of one of its test files.
SomethingFails(pr, options) ==
    \/ \E i \in DOMAIN options.Patterns : ~pr.list[options.Patterns[i]].ok
    \/ \E i \in DOMAIN Enumerated(pr, options) :
          LET pkg == Enumerated(pr, options)[i] IN
          \/ ~pr.dir[pkg]
          \/ \E j \in DOMAIN TestFilesOf(pr, pkg) :
                ~pr.parse[TestFilesOf(pr, pkg)[j]].ok

\* C14: when go list fails for a pattern, or the directory of an enumerated
\* package cannot be resolved, or one of its test files does not parse,
\* DiscoverTargets returns an error and no list of targets.
C14_DiscoveryIsFailFast ==
    (pc # "discover" /\ SomethingFails(project, Config)) =>
        /\ pc = "undiscovered"
        /\ last.err
        /\ last.targets = <<>>
        /\ Targets = <<>>

\* The second package of the pass has a file that does not parse, after
\* the first package was scanned and had targets.
C14_Witness ==
    /\ pc = "undiscovered"
    /\ Config.Patterns = <<PatternAll>>
    /\ project.list[PatternAll].ok
    /\ ~findTargetsInPackage(project, PkgCodec).err
    /\ findTargetsInPackage(project, PkgCodec).targets # <<>>
    /\ project.dir[PkgB]
    /\ ~project.parse[BTest].ok

\* The number of parameters a declaration declares.
RECURSIVE NumParams(_)
NumParams(params) ==
    IF params = <<>> THEN 0
    ELSE (IF Len(Head(params).Names) = 0 THEN 1 ELSE Len(Head(params).Names))
         + NumParams(Tail(params))

\* A function declaration (not a method) whose name starts with Fuzz and
\* which has exactly one parameter, of type *testing.F.
IsFuzzFunction(decl) ==
    /\ decl.node = "FuncDecl"
    /\ ~decl.Recv
    /\ decl.Name[1] = "Fuzz"
    /\ NumParams(decl.Params) = 1
    /\ decl.Params[1].Type = TestingF

\* C15: after a discovery without changedOnly that returned no error, a
\* declaration of a scanned test file has a Target (same package, file and
\* name) if and only if it is a function declaration whose name starts with
\* Fuzz and which has exactly one parameter of type *testing.F; the
\* Description of the Target is the text of the doc comment, if there is one.
C15_TargetIffFuzzFunction ==
    (pc = "discovered" /\ ~Config.ChangedOnly) =>
        \A i \in DOMAIN Enumerated(project, Config) :
           LET pkg == Enumerated(project, Config)[i] IN
           \A j \in DOMAIN TestFilesOf(project, pkg) :
              LET f == TestFilesOf(project, pkg)[j]
                  decls == project.parse[f].Decls
              IN \A k \in DOMAIN decls :
                    LET found == {n \in DOMAIN Targets :
                                     /\ decls[k].node = "FuncDecl"
                                     /\ Targets[n].Package = pkg
                                     /\ Targets[n].FilePath = f
                                     /\ Targets[n].Name = decls[k].Name}
                    IN /\ found # {} <=> IsFuzzFunction(decls[k])
                       /\ \A n \in found :
                             /\ decls[k].Doc = NoDoc =>
                                   Targets[n].Description = <<>>
                             /\ decls[k].Doc # NoDoc =>
                                   Targets[n].Description =
                                      Flatten([c \in DOMAIN decls[k].Doc |->
                                                 <<decls[k].Doc[c][3], "\n">>])

\* What a Target says of where it was declared.
Decl(t) == <<t.Package, t.FilePath, t.Name>>

\* The declarations of the enumerated packages that discovery takes for
\* targets, package after package, file after file, in source order.
InOrder(pr, options) ==
    LET ofFile(pkg, f) ==
            LET decls == pr.parse[f].Decls
                fuzz == SelectSeq(decls, LAMBDA d :
                           /\ d.node = "FuncDecl"
                           /\ d.Name[1] = "Fuzz"
                           /\ hasFuzzParameter(d))
            IN [k \in DOMAIN fuzz |-> <<pkg, f, fuzz[k].Name>>]
        ofPkg(pkg) ==
            Flatten([j \in DOMAIN TestFilesOf(pr, pkg) |->
                       ofFile(pkg, TestFilesOf(pr, pkg)[j])])
    IN Flatten([i \in DOMAIN Enumerated(pr, options) |->
                  ofPkg(Enumerated(pr, options)[i])])

\* C16: the list DiscoverTargets returns holds the targets in the order the
\* packages were enumerated and, within a package, file after file and
\* declaration after declaration; with ChangedOnly it is the subsequence of
\* that list whose file git diff reports as changed.
C16_DiscoveryOrder ==
    pc = "discovered" =>
        LET all == InOrder(project, Config)
            want == IF Config.ChangedOnly
                    THEN SelectSeq(all, LAMBDA d : project.diff[d[2]] = "changed")
                    ELSE all
        IN /\ Len(Targets) = Len(want)
           /\ \A n \in DOMAIN Targets : Decl(Targets[n]) = want[n]

\* A discovery with ChangedOnly over two packages kept targets of both and
\* dropped those of a file that has not changed.
C16_Witness ==
    /\ pc = "discovered"
    /\ Config.ChangedOnly
    /\ Config.Patterns = <<PatternAll>>
    /\ project.diff[ATest] = "same"
    /\ \E n \in DOMAIN Targets : Targets[n].Package = PkgCodec
    /\ \E n \in DOMAIN Targets : Targets[n].FilePath = BTest
    /\ Len(Targets) < Len(InOrder(project, Config))

----------------------------------------------------------------------------
(* Claims about the engine, checked under Spec *)

FileCount(d) == Cardinality(Files(d))

\* C1: across every step of every run driven by the engine (harness exit
\* zero or non-zero, or an orchestration error), the number of files in each
\* target's persistent corpus directory does not decrease.
C1_CorpusCountNonDecreasing ==
    [][\A p \in Paths : FileCount(persist'[p]) >= FileCount(persist[p])]_vars

C3_OrchestrationErrorAborts ==
    [][/\ pc # "failed"
       /\ (last'.op = "RunTarget" /\ last'.err) => pc' = "returned"
       /\ (pc = "returned" /\ last.err) =>
             /\ pc' = "failed"
             /\ last'.err
             /\ Results' = Results
             /\ idx' = idx]_vars

\* RunAll stopped at a target that is not the last of the list.
C3_Witness ==
    /\ pc = "failed"
    /\ idx < Len(Targets)
    /\ last.op = "RunAllStep"
    /\ last.err

\* C4: Results always holds one Result for each of the first idx - 1
\* targets, in the order of the target list, and a step only ever appends
\* to it: the earlier entries stay, in place and unchanged.
C4_ResultsFollowTargetOrder ==
    [][/\ Len(Results') = idx' - 1
       /\ Len(Results') <= Len(Targets')
       /\ \A i \in 1..Len(Results') : Results'[i].Target = Targets'[i]
       /\ Len(Results') >= Len(Results)
       /\ SubSeq(Results', 1, Len(Results)) = Results]_vars

\* Two targets completed, and their Results are for different targets.
C4_Witness ==
    /\ Len(Results) = 2
    /\ Results[1].Target # Results[2].Target

\* C5: whenever no RunTarget is in progress no workspace exists; while one
\* is in progress the only workspace is its own.
C5_NoWorkspaceOutlivesItsRun ==
    /\ pc \in {"loop", "returned", "failed", "done", "printed"} => workspaces = {}
    /\ pc \in {"executing", "exited"} => workspaces = {tempDir}

\* A run that had made its workspace returned an error after a failing
\* harness, and the workspace is gone.
C5_Witness ==
    /\ pc = "returned"
    /\ last.err
    /\ last.op = "RunTarget"
    /\ last.made
    /\ last.harness = "nonzero"
    /\ last.stage = "import"
    /\ workspaces = {}

\* C6: after the harness has ended, with either exit status, RunTarget calls
\* ImportNewCorpusEntries once on the workspace corpus before it returns:
\* unless a copy fails, every file of the workspace corpus whose name is free
\* in the persistent directory is copied there with its content (the
\* minimizer run by the same call may then remove it).
C6_ImportAfterEveryHarnessRun ==
    [][pc = "exited" =>
          LET d == targetPath(Targets[idx])
              new == {n \in Files(wsCorpus) : ~Stat(persist[d], n)}
          IN /\ last'.op = "RunTarget"
             /\ last'.imports = 1
             /\ last'.istage # "copy" => last'.copied = new
             /\ last'.copied \subseteq new
             /\ \A n \in last'.copied :
                   persist'[d].entries[n] \in {wsCorpus.entries[n], Absent}
             /\ last'.istage = "none" /\ last'.procs = 0 =>
                   \A n \in new : persist'[d].entries[n] = wsCorpus.entries[n]]_vars

\* Files were imported at the end of a run whose harness had failed.
C6_Witness ==
    /\ last.op = "RunTarget"
    /\ last.harness = "nonzero"
    /\ last.imports = 1
    /\ last.copied # {}

\* The steps RunAll and RunTarget take, as changes of position.
PhaseOrder ==
    {<<"loop", "executing">>, <<"loop", "returned">>, <<"executing", "exited">>,
     <<"exited", "returned">>, <<"returned", "loop">>, <<"returned", "failed">>,
     <<"loop", "done">>, <<"done", "printed">>}

\* C18: RunTarget stages, sets the budget, runs the harness, classifies,
\* imports and cleans up in that order.  The harness is started only once
\* the workspace corpus holds every file of the target's persistent
\* directory under its name and with its bytes, and nothing else.  When a
\* call before the harness fails, RunTarget returns an error, no harness
\* was started, nothing was imported, and every persistent directory holds
\* the files it held.
C18_StagingBeforeHarness ==
    [][/\ pc' # pc => <<pc, pc'>> \in PhaseOrder
       /\ pc' = "executing" =>
             LET d == targetPath(Targets[idx]) IN
             /\ last'.op = "exec"
             /\ last'.fuzztime = getTargetDuration(Config, Targets[idx])
             /\ wsCorpus'.exists
             /\ Entries(wsCorpus') = Files(persist[d])
             /\ \A n \in Files(persist[d]) :
                   wsCorpus'.entries[n] = persist[d].entries[n]
             /\ persist'[d].entries = persist[d].entries
       /\ last'.op = "RunTarget" => pc' = "returned" /\ workspaces' = {}
       /\ (last'.op = "RunTarget" /\ last'.imports = 1) => pc = "exited"
       /\ (pc = "loop" /\ pc' = "returned") =>
             /\ last'.err
             /\ last'.harness = "notrun"
             /\ last'.imports = 0
             /\ last'.procs = 0
             /\ \A p \in Paths : persist'[p].entries = persist[p].entries]_vars

\* The copy of a persistent corpus that holds a file failed, and RunTarget
\* returned the error.
C18_Witness ==
    /\ pc = "returned"
    /\ last.err
    /\ last.stage = "copydir"
    /\ last.harness = "notrun"
    /\ Files(persist[targetPath(last.target)]) # {}

\* C19: the NewCorpusItems of a Result is the number of entries, files and
\* directories, of the workspace corpus directory when the harness has
\* ended: the files staged from the persistent directory and the entries
\* the harness added, whatever the import copied.
C19_NewCorpusItemsCountsWorkspace ==
    [][(pc = "exited" /\ ~last'.err) =>
          LET staged == Files(persist[targetPath(Targets[idx])])
              added == Entries(wsCorpus) \ staged
          IN /\ staged \subseteq Entries(wsCorpus)
             /\ last'.result.NewCorpusItems = Cardinality(Entries(wsCorpus))
             /\ last'.result.NewCorpusItems =
                   Cardinality(staged) + Cardinality(added)]_vars

\* A run whose harness added nothing to a staged file: the count is one,
\* and the import copied nothing.
C19_Witness ==
    /\ pc = "returned"
    /\ ~last.err
    /\ last.copied = {}
    /\ last.result.NewCorpusItems = 1

\* C21: when the import at the end of RunTarget fails (the workspace corpus
\* cannot be read, a copy fails, or the minimizer the import starts exits
\* non-zero), RunTarget returns an error and no Result, whatever the harness
\* exit and the crash artifacts were; RunAll then appends nothing for that
\* target and returns the error, and no later target is started.
C21_ImportFailureAborts ==
    [][/\ pc = "exited" =>
             /\ last'.op = "RunTarget"
             /\ (last'.procs = 1 /\ last'.minExit # 0) =>
                   last'.importErr /\ last'.istage = "minimize"
             /\ last'.importErr =>
                   /\ last'.err
                   /\ last'.stage = "import"
                   /\ last'.result = NoResult
                   /\ pc' = "returned"
                   /\ Results' = Results
       /\ (pc = "returned" /\ last.err /\ last.stage = "import") =>
             /\ pc' = "failed"
             /\ last'.op = "RunAllStep"
             /\ last'.err
             /\ Results' = Results
             /\ Len(Results') = idx - 1
       /\ pc = "failed" => FALSE]_vars

\* The harness of the first of two targets failed and left crash artifacts,
\* the minimizer of its import exited non-zero, and RunTarget returned an
\* error: no Result is held, and the second target is still to run.
C21_Witness ==
    /\ pc = "returned"
    /\ last.op = "RunTarget"
    /\ last.err
    /\ last.istage = "minimize"
    /\ last.minExit # 0
    /\ last.harness = "nonzero"
    /\ last.crashers # {}
    /\ Results = <<>>
    /\ idx = 1
    /\ Len(Targets) = 2

----------------------------------------------------------------------------
(* Claims about termination, checked under SpecLive *)

\* RunAll has returned: nil, with one Result for every target, or an error.
Terminated ==
    \/ pc = "done" /\ Len(Results) = Len(Targets)
    \/ pc = "failed" /\ Len(Results) < Len(Targets)

\* C25: when every harness process that is started ends, RunAll returns,
\* with one Result for each target or with an error.  While a harness runs
\* the engine has no step of its own: the only step is the end of that
\* process, so a harness that never ends keeps RunAll from returning and
\* from starting a later target.
C25_RunAllTerminates ==
    /\ <>Terminated
    /\ [][pc = "executing" =>
            /\ pc' = "exited"
            /\ last'.op = "harness"
            /\ idx' = idx
            /\ Results' = Results
            /\ workspaces' = workspaces]_vars
    /\ [](pc = "executing" => ~Terminated)

\* RunAll has returned nil after it ran every target of a list of
\* MaxTargets, one of which failed in its harness.
C25_Witness ==
    /\ pc = "done"
    /\ Len(Targets) = MaxTargets
    /\ Len(Results) = Len(Targets)
    /\ \E i \in DOMAIN Results : ~Results[i].Success

----------------------------------------------------------------------------
(* Claims about an engine whose targets share a directory, checked under   *)
(* SpecShared                                                              *)

\* C23: every step of RunTarget for a target (staging, the harness, the
\* import and the return) leaves the target list and the configuration as
\* they were, and leaves the persistent corpus directory of every other
\* target of the engine as it was.
C23_RunTargetTouchesOnlyItsCorpus ==
    [][(pc \in {"loop", "executing", "exited"} /\ idx <= Len(Targets)) =>
          /\ Targets' = Targets
          /\ Config' = Config
          /\ \A i \in DOMAIN Targets :
                Targets[i] # Targets[idx] =>
                   LET u == GetTargetDir(Mgr(persist, TargetDirs, Minimization),
                                         Targets[i], FALSE).dir
                   IN persist'[u] = persist[u]]_vars

----------------------------------------------------------------------------
(* Claims about instances that import side by side, checked under SpecRace *)

\* C24: an instance copies a name only after its own os.Stat did not find
\* it, and the bytes of a file that exists change only when an instance
\* that passed this check for the name calls os.Create or io.Copy on it;
\* the file os.Create then truncates was made by the other instance, in the
\* same directory, after the check.  Nothing orders the check of one
\* instance and the copy of the other, so both can pass the check for one
\* name and both write it, the second over the bytes of the first.
C24_OverwriteOnlyThroughARace ==
    [][/\ \A id \in InstanceIds :
             LET a == instances[id]
                 b == instances'[id]
             IN /\ (a.pc = "stat" /\ b.pc = "create") =>
                      ~Stat(persist[a.dir], Names[b.i])
                /\ (a.pc = "create" /\ b.pc = "copy"
                      /\ IsFile(persist[a.dir].entries[Names[a.i]])) =>
                      \E other \in InstanceIds \ {id} :
                         /\ instances[other].dir = a.dir
                         /\ Names[a.i] \in instances[other].written
       /\ \A d \in Paths : \A n \in NameSet :
             (/\ IsFile(persist[d].entries[n])
              /\ IsFile(persist'[d].entries[n])
              /\ persist'[d].entries[n] # persist[d].entries[n]) =>
                /\ last'.op \in {"create", "copy"}
                /\ instances[last'.inst].dir = d
                /\ Names[instances[last'.inst].i] = n
                /\ n \in instances'[last'.inst].written]_vars

\* Two imports into one directory have returned without error; both copied
\* the same name from sources that hold different bytes under it, the
\* second truncated the bytes the first had written, and the file holds the
\* bytes of the second.
C24_Witness ==
    \E first \in InstanceIds : \E second \in InstanceIds \ {first} :
       LET a == instances[first]
           b == instances[second]
       IN /\ pc = "race"
          /\ a.pc = "returned" /\ ~a.err
          /\ b.pc = "returned" /\ ~b.err
          /\ a.dir = b.dir
          /\ \E n \in a.copied \cap b.copied :
                /\ a.src.entries[n] # b.src.entries[n]
                /\ <<n, a.src.entries[n]>> \in b.overwrote
                /\ persist[b.dir].entries[n] = b.src.entries[n]

----------------------------------------------------------------------------
(* Claims about the crash listing, checked under SpecCrash *)

\* The last element of a path: filepath.Base for the paths of the model.
\* A path is <<"fuzz-run-", dir, "/", "crashers", "/">> followed by the name.
Base(path) == SubSeq(path, 6, Len(path))

\* The elements of a sequence.
Range(q) == {q[i] : i \in DOMAIN q}

\* C11: when the harness exited non-zero and RunTarget returns a Result, the
\* Result has Success = FALSE and its CrashInputs lists, once each and as
\* paths inside the workspace's crashers directory, exactly the entries of
\* that directory whose name does not end in ".output": {c1, c1.output, c2}
\* gives c1 and c2, {c1, c1.output} gives a list of length 1.
C11_CrashInputsExcludeSidecars ==
    [][(pc = "exited" /\ exitCode # 0 /\ ~last'.err) =>
          LET ci == last'.result.CrashInputs IN
          /\ last'.result.Success = FALSE
          /\ {Base(ci[i]) : i \in DOMAIN ci} =
                {n \in wsCrashers : ~HasSuffix(n, ".output")}
          /\ \A i \in DOMAIN ci : ci[i] = crasherPath(tempDir, Base(ci[i]))
          /\ Cardinality(Range(ci)) = Len(ci)
          /\ wsCrashers = {<<"c1">>, <<"c1", ".output">>, <<"c2">>} =>
                {Base(ci[i]) : i \in DOMAIN ci} = {<<"c1">>, <<"c2">>}
          /\ wsCrashers = {<<"c1">>, <<"c1", ".output">>} => Len(ci) = 1]_vars

\* A failing run left c1, c1.output and c2, and its Result lists two inputs.
C11_Witness ==
    /\ pc = "returned"
    /\ ~last.err
    /\ last.harness = "nonzero"
    /\ last.crashers = {<<"c1">>, <<"c1", ".output">>, <<"c2">>}
    /\ Len(last.result.CrashInputs) = 2

\* C13: the ErrorMessage of every Result, returned by RunTarget or held in
\* Results, is at most DisplayLen bytes long, whatever the harness printed.
C13_ErrorMessageIsTruncated ==
    /\ \A i \in DOMAIN Results : Len(Results[i].ErrorMessage) <= DisplayLen
    /\ (pc = "returned" /\ ~last.err) =>
          Len(last.result.ErrorMessage) <= DisplayLen

----------------------------------------------------------------------------
(* Claims about the corpus manager, checked under SpecMgr *)

\* The second of two calls in a row of ImportNewCorpusEntries with the same
\* target and the same source directory, the first having returned no error.
ImportedAgain ==
    /\ last.op = "Import"
    /\ last'.op = "Import"
    /\ last'.target = last.target
    /\ last'.src = last.src
    /\ ~last.err

\* C7 as stated: the second call returns no error and leaves every file
\* (name and content) of the persistent directories as the first left it.
C7_ImportTwiceIsIdempotent ==
    [][ImportedAgain =>
          /\ ~last'.err
          /\ \A d \in Paths : persist'[d] = persist[d]]_vars

\* C7 amended: with strategy none, the second call copies nothing, returns no
\* error and leaves the persistent directories as the first left them.
C7_ImportTwiceIsIdempotentNone ==
    [][(ImportedAgain /\ Minimization = NoMinimization) =>
          /\ ~last'.err
          /\ last'.copied = {}
          /\ \A d \in Paths : persist'[d] = persist[d]]_vars

\* A source directory with files was imported twice in a row, strategy none.
C7_Witness ==
    /\ last.op = "Import"
    /\ last.again
    /\ Minimization = NoMinimization
    /\ Files(last.src) # {}
    /\ \A n \in Files(last.src) :
          persist[targetPath(last.target)].entries[n] = last.src.entries[n]

\* The names under which an import meets a file with other bytes than the
\* file the source directory holds under that name.
Collisions(dst, src) ==
    {n \in NameSet : /\ IsFile(dst.entries[n])
                     /\ IsFile(src.entries[n])
                     /\ src.entries[n] # dst.entries[n]}

\* C8 as stated: an import from a directory holding n with other bytes than
\* the persistent n reports no error for n and leaves the persistent n with
\* its bytes.
C8_CollisionKeepsFirstContent ==
    [][(last'.op = "Import" /\ last'.src.exists) =>
          LET d == targetPath(last'.target) IN
          \A n \in Collisions(persist[d], last'.src) :
             /\ last'.bad # n
             /\ persist'[d].entries[n] = persist[d].entries[n]]_vars

\* C8 amended: the import reports no error for n and never gives n the
\* bytes of the source: n keeps its bytes, or, with strategy coverage only,
\* is removed by the minimizer the call runs after copying.  No call of the
\* manager ever changes the bytes of a file that exists.
C8_CollisionNeverOverwrites ==
    [][/\ (last'.op = "Import" /\ last'.src.exists) =>
             LET d == targetPath(last'.target) IN
             \A n \in Collisions(persist[d], last'.src) :
                /\ last'.bad # n
                /\ n \notin last'.copied
                /\ persist'[d].entries[n] \in {persist[d].entries[n], Absent}
                /\ persist'[d].entries[n] = Absent =>
                      /\ Minimization = CoverageMinimization
                      /\ last'.procs = 1
       /\ \A d \in Paths : \A n \in Files(persist[d]) :
             /\ persist'[d].entries[n] \in {persist[d].entries[n], Absent}
             /\ Minimization = NoMinimization =>
                   persist'[d].entries[n] = persist[d].entries[n]]_vars

\* An import met a persistent file under a name for which the source holds
\* other bytes, and returned no error.
C8_Witness ==
    /\ last.op = "Import"
    /\ ~last.err
    /\ Collisions(persist[targetPath(last.target)], last.src) # {}

\* C12: on one manager instance a call of GetTargetDir for a key that was
\* resolved before returns the path the first call returned, makes no call
\* of os.MkdirAll and leaves the disk and the cache as they were; a call for
\* a key not yet resolved calls os.MkdirAll once and caches the path it
\* returns; and no call on that instance changes or drops a cached path.
C12_GetTargetDirIsCached ==
    [][/\ last'.op = "GetTargetDir" =>
             LET key == targetKey(last'.target) IN
             /\ last'.dir = targetPath(last'.target)
             /\ TargetDirs'[key] = last'.dir
             /\ TargetDirs[key] # NoPath =>
                   /\ last'.dir = TargetDirs[key]
                   /\ last'.mkdirs = 0
                   /\ persist' = persist
                   /\ TargetDirs' = TargetDirs
             /\ TargetDirs[key] = NoPath => last'.mkdirs = 1
       /\ last'.op # "NewCorpusManager" =>
             \A k \in Keys : TargetDirs[k] # NoPath => TargetDirs'[k] = TargetDirs[k]]_vars

\* GetTargetDir was called for a key the instance had resolved, whose
\* directory the first call had failed to create.
C12_Witness ==
    /\ last.op = "GetTargetDir"
    /\ last.mkdirs = 0
    /\ ~persist[last.dir].exists

\* C17: when ImportNewCorpusEntries returns no error with strategy none, the
\* files of the target's directory are those it held before and those of
\* the source directory; the files it held before keep their bytes, every
\* new file has the bytes of the source file of its name, no directory of
\* the source is imported, and no other directory changes.
C17_ImportAddsExactlyTheNewFiles ==
    [][(last'.op = "Import" /\ ~last'.err /\ Minimization = NoMinimization) =>
          LET d == targetPath(last'.target)
              src == last'.src
          IN /\ Files(persist'[d]) = Files(persist[d]) \cup Files(src)
             /\ \A n \in Files(persist[d]) :
                   persist'[d].entries[n] = persist[d].entries[n]
             /\ \A n \in Files(persist'[d]) \ Files(persist[d]) :
                   persist'[d].entries[n] = src.entries[n]
             /\ \A n \in NameSet :
                   (src.entries[n] = SubDir /\ persist[d].entries[n] = Absent)
                      => persist'[d].entries[n] = Absent
             /\ \A q \in Paths \ {d} : persist'[q] = persist[q]]_vars

\* An import with strategy none returned no error for a source holding a
\* directory and a file: the file is there, the directory is not.
C17_Witness ==
    /\ last.op = "Import"
    /\ ~last.err
    /\ Minimization = NoMinimization
    /\ last.src.entries[Names[1]] = SubDir
    /\ IsFile(last.src.entries[Names[2]])
    /\ Names[2] \in last.copied
    /\ persist[targetPath(last.target)].entries[Names[1]] = Absent
    /\ persist[targetPath(last.target)].entries[Names[2]] = last.src.entries[Names[2]]

\* C20 as stated: with strategy coverage, when the minimizer the import
\* starts after copying exits non-zero, the import returns an error and
\* every file it copied is in the directory with the bytes of its source.
C20_FailedMinimizeKeepsCopies ==
    [][(last'.op = "Import" /\ last'.procs = 1 /\ last'.min.exit # 0) =>
          /\ last'.err
          /\ \A n \in last'.copied :
                persist'[targetPath(last'.target)].entries[n] =
                   last'.src.entries[n]]_vars

\* C20 amended: with strategy coverage the import starts the minimizer
\* once, after a copy loop without error, and not otherwise; when the
\* minimizer exits non-zero the import returns an error and undoes nothing:
\* every file it copied that the minimizer process kept is in the directory
\* with the bytes of its source, the others were removed by that process.
C20_FailedMinimizeIsNotRolledBack ==
    [][(last'.op = "Import" /\ Minimization = CoverageMinimization) =>
          /\ last'.procs = IF last'.stage \in {"none", "minimize"} THEN 1 ELSE 0
          /\ (last'.procs = 1 /\ last'.min.exit # 0) =>
                /\ last'.err
                /\ last'.stage = "minimize"
                /\ \A n \in last'.copied :
                      persist'[targetPath(last'.target)].entries[n] =
                         IF n \in last'.min.keep THEN last'.src.entries[n]
                         ELSE Absent]_vars

\* An import copied files, its minimizer exited non-zero having kept them,
\* and they are in the directory.
C20_Witness ==
    /\ last.op = "Import"
    /\ last.procs = 1
    /\ last.min.exit # 0
    /\ last.err
    /\ last.copied # {}
    /\ \A n \in last.copied :
          persist[targetPath(last.target)].entries[n] = last.src.entries[n]

\* C22: two targets whose (package, name) keys differ never resolve to the
\* same directory: the paths a manager instance has cached for different
\* keys are different paths, pkg/codec and pkg_codec included.
C22_ResolutionIsInjective ==
    \A k1 \in Keys : \A k2 \in Keys :
       (k1 # k2 /\ TargetDirs[k1] # NoPath /\ TargetDirs[k2] # NoPath) =>
          TargetDirs[k1] # TargetDirs[k2]

\* C9: with strategy none, Minimize returns no error, starts no external
\* process and leaves the disk and the manager as they were, and
\* ImportNewCorpusEntries starts no external process.
C9_NoneNeverStartsTheHarness ==
    [][Minimization = NoMinimization =>
          /\ last'.op = "Minimize" =>
                /\ ~last'.err
                /\ last'.procs = 0
                /\ persist' = persist
                /\ TargetDirs' = TargetDirs
          /\ last'.op = "Import" => last'.procs = 0]_vars

\* Minimize was called with strategy none on a directory that holds files.
C9_Witness ==
    /\ last.op = "Minimize"
    /\ Minimization = NoMinimization
    /\ Files(persist[targetPath(last.target)]) # {}

----------------------------------------------------------------------------
(* Claims about the time budget, checked under SpecBudget *)

\* The fraction the allocation map gives a target: its package's entry,
\* else the entry of "default", else none.
Fraction(cfg, t) ==
    IF t.Package \in DOMAIN cfg.TimeAllocation
    THEN cfg.TimeAllocation[t.Package]
    ELSE IF DefaultKey \in DOMAIN cfg.TimeAllocation
    THEN cfg.TimeAllocation[DefaultKey]
    ELSE 0

\* C10: the harness is started with the whole units of FuzzTime times the
\* target's fraction (300 and 1/2 give 150), whatever that budget is: only a
\* failing OS call keeps RunTarget from starting the harness.
C10_TimeBudget ==
    [][pc = "loop" /\ idx <= Len(Targets) =>
          LET x == Config.FuzzTime * Fraction(Config, Targets[idx]) IN
          /\ last'.op = "exec" =>
                /\ pc' = "executing"
                /\ last'.fuzztime * AllocDen <= x
                /\ x < (last'.fuzztime + 1) * AllocDen
                /\ (Config.FuzzTime = 300 /\ 2 * Fraction(Config, Targets[idx]) = AllocDen)
                      => last'.fuzztime = 150
          /\ last'.op # "exec" =>
                /\ last'.op = "RunTarget"
                /\ last'.stage \in {"mkdirtemp", "mkcorpus", "copydir", "mkcrashers"}]_vars

\* The harness runs with a zero budget: the total is positive, and neither
\* the target's package nor "default" is in the allocation map.
C10_Witness ==
    /\ pc = "executing"
    /\ last.fuzztime = 0
    /\ Config.FuzzTime > 0
    /\ DOMAIN Config.TimeAllocation = {}

====
